---- MODULE Spec2Model ----
(***************************************************************************)
(* Model of the wscli "migrate" sub-command (package cmd): the identity    *)
(* mapping built from the user accounts (buildIDMap, cleanEmail, getUser,  *)
(* searchLDAP, getLDAPClient), the role binding transform                  *)
(* (mutateTenantRoleBindings) and the output writer                        *)
(* (writeMigratedRoleBindings).                                            *)
(*                                                                         *)
(* Go strings on which the program computes (names, namespaces, e-mail     *)
(* addresses, identities) are sequences of one-character strings, so that  *)
(* strings.Replace, the regular expression of cleanEmail and fmt.Sprintf   *)
(* are computed character by character.  Strings the program only compares *)
(* or assigns (kinds, labels, the -t flag) are TLA+ strings.               *)
(*                                                                         *)
(* Three specifications share the variables:                               *)
(*   SpecRun   migrateCmd.Run up to the call of migrate(idMap, ctx)        *)
(*   Spec      migrate(idMap, ctx), from that call to the end of the run   *)
(*   SpecClean cleanEmail applied (twice) to an arbitrary address          *)
(***************************************************************************)
EXTENDS Integers, Sequences, FiniteSets, TLC

VARIABLES
    pc,                  \* position of the run
    target,              \* the -t flag (var target)
    userAccounts,        \* the UserAccount list returned by the cluster
    acctIdx,             \* accounts of userAccounts.Items already visited by buildIDMap
    idMap,               \* legacy account name -> identity
    onceDone,            \* sync.Once: its function has been called
    dials,               \* number of ldap.Dial calls of the run
    searches,            \* number of conn.Search calls of the run
    conn,                \* the LDAP connection: "none", "open", "closed"
    ldapDir,             \* the directory the connection answers from
    rbList,              \* the []rbacv1.RoleBinding handed to the transform
    subjHeap,            \* backing arrays of the Subjects slices
    fetched,             \* subject names of each binding as the cluster returned them
    rbIdx,               \* bindings of rbList the transform loop has gone past
    mrbList,             \* the migrated bindings collected so far
    processedNamespaces, \* namespace -> number of migrated bindings
    orphanReport,        \* the namespaces printed as orphans, in print order
    outFile,             \* the content of the output file, item by item
    writeErrors,         \* writes and encodings that failed in the writer
    email,               \* SpecClean: the address given to cleanEmail
    cleanOut             \* SpecClean: the results of the successive cleanEmail calls

varsRun == <<target, userAccounts, acctIdx, onceDone, dials, searches, conn, ldapDir>>
varsMig == <<rbList, subjHeap, fetched, rbIdx, mrbList, processedNamespaces,
             orphanReport, outFile, writeErrors>>
varsClean == <<email, cleanOut>>
vars == <<pc, idMap, varsRun, varsMig, varsClean>>

----------------------------------------------------------------------------
(* Bounds of the model *)

MaxLen == 6          \* longest address given to cleanEmail in SpecClean
MaxAccounts == 2     \* most UserAccounts in the list
MaxBindings == 2     \* most RoleBindings returned by the cluster

----------------------------------------------------------------------------
(* Go string functions *)

\* s[i..] starts with pat
HasPrefixAt(s, pat, i) ==
    /\ i + Len(pat) - 1 <= Len(s)
    /\ SubSeq(s, i, i + Len(pat) - 1) = pat

\* strings.Index, 1-based; 0 when pat does not occur.  The empty pattern
\* occurs at the start of every string.
Index(s, pat) ==
    LET hits == {i \in 1..(Len(s) + 1) : HasPrefixAt(s, pat, i)}
    IN IF hits = {} THEN 0 ELSE CHOOSE i \in hits : \A j \in hits : i <= j

Contains(s, pat) == Index(s, pat) # 0

\* number of positions at which pat occurs in s
Occurrences(s, pat) == Cardinality({i \in 1..Len(s) : HasPrefixAt(s, pat, i)})

\* strings.Replace(s, old, new, 1): only the first occurrence is replaced
ReplaceFirst(s, old, new) ==
    LET i == Index(s, old)
    IN IF i = 0 THEN s
       ELSE SubSeq(s, 1, i - 1) \o new \o SubSeq(s, i + Len(old), Len(s))

\* index of the first "@" of s at a position > i, 0 when there is none
NextAt(s, i) ==
    LET hits == {k \in (i + 1)..Len(s) : s[k] = "@"}
    IN IF hits = {} THEN 0 ELSE CHOOSE k \in hits : \A j \in hits : k <= j

\* The regular expression \+[^@]+@ matches at position i exactly when s[i] is
\* "+", the next character exists and is not "@", and an "@" follows; the match
\* then ends at the first "@" after i, since [^@]+ cannot run over an "@".
MatchEnd(s, i) ==
    LET k == NextAt(s, i)
    IN IF s[i] = "+" /\ k >= i + 2 THEN k ELSE 0

\* re.ReplaceAllString(s, "@") from position i on: every non-overlapping match,
\* leftmost first, becomes "@"; the text between matches is copied.
RECURSIVE ReplaceAllFrom(_, _)
ReplaceAllFrom(s, i) ==
    IF i > Len(s) THEN <<>>
    ELSE IF MatchEnd(s, i) # 0
         THEN <<"@">> \o ReplaceAllFrom(s, MatchEnd(s, i) + 1)
         ELSE <<s[i]>> \o ReplaceAllFrom(s, i + 1)

\* A faulty variant: only the first match is replaced (ReplaceAllString
\* confused with a single replacement).
RECURSIVE ReplaceOneFrom(_, _)
ReplaceOneFrom(s, i) ==
    IF i > Len(s) THEN <<>>
    ELSE IF MatchEnd(s, i) # 0
         THEN <<"@">> \o SubSeq(s, MatchEnd(s, i) + 1, Len(s))
         ELSE <<s[i]>> \o ReplaceOneFrom(s, i + 1)

cleanEmailFirstOnly(e) == ReplaceOneFrom(e, 1)

cleanEmail(e) == ReplaceAllFrom(e, 1)

----------------------------------------------------------------------------
(* SpecClean: cleanEmail on arbitrary addresses *)

EmailChars == {"a", "+", "@"}

\* every string over EmailChars of length at most MaxLen
Addresses == UNION {[1..n -> EmailChars] : n \in 0..MaxLen}

MigDefaults ==
    /\ rbList = <<>> /\ subjHeap = <<>> /\ fetched = <<>> /\ rbIdx = 0
    /\ mrbList = <<>> /\ processedNamespaces = <<>> /\ orphanReport = <<>>
    /\ outFile = <<>> /\ writeErrors = 0

RunDefaults ==
    /\ target = "email" /\ userAccounts = <<>> /\ acctIdx = 0
    /\ onceDone = FALSE /\ dials = 0 /\ searches = 0 /\ conn = "none"
    /\ ldapDir = <<>>

CleanDefaults == email = <<>> /\ cleanOut = <<>>

InitClean ==
    /\ pc = "clean"
    /\ idMap = <<>>
    /\ email \in Addresses
    /\ cleanOut = <<>>
    /\ RunDefaults
    /\ MigDefaults

\* cleanEmail is called on the address, then on its own result
CleanEmailCall ==
    /\ pc = "clean"
    /\ Len(cleanOut) < 2
    /\ cleanOut' = Append(cleanOut,
                          cleanEmail(IF cleanOut = <<>> THEN email
                                     ELSE cleanOut[Len(cleanOut)]))
    /\ UNCHANGED <<pc, idMap, email, varsRun, varsMig>>

NextClean == CleanEmailCall

SpecClean == InitClean /\ [][NextClean]_vars

\* C6: for an address of the form local+tag@domain (no "+" in local or domain,
\* a non-empty tag without "@") cleanEmail returns local@domain, and for every
\* address a second cleanEmail returns what the first returned.
C6_CleanEmailStripsTagIdempotent ==
    /\ Len(cleanOut) >= 1 =>
         \A p \in 1..Len(email), q \in 1..Len(email) :
            LET local == SubSeq(email, 1, p - 1)
                tag == SubSeq(email, p + 1, q - 1)
                domain == SubSeq(email, q + 1, Len(email))
            IN (/\ email[p] = "+" /\ email[q] = "@" /\ p + 1 < q
                /\ ~Contains(local, <<"+">>)
                /\ ~Contains(tag, <<"@">>)
                /\ ~Contains(domain, <<"+">>))
               => cleanOut[1] = local \o <<"@">> \o domain
    /\ Len(cleanOut) = 2 => cleanOut[2] = cleanOut[1]

\* cleanEmail has run twice on a+a@a: the tag is gone and the second call
\* changed nothing.
C6_Witness ==
    /\ email = <<"a", "+", "a", "@", "a">>
    /\ cleanOut = << <<"a", "@", "a">>, <<"a", "@", "a">> >>

----------------------------------------------------------------------------
(* SpecRun: migrateCmd.Run, from the start of the run to migrate(idMap, ctx) *)

Targets == {"email", "user", "uid"}      \* values of the -t flag; "uid" is invalid

AccountNames == {<<"j", "d">>, <<"z", "z">>, <<"k", "k">>}

\* contact addresses found in the claims: j+x@r, j@r, z@r and the empty string
AccountEmails ==
    { <<"j", "+", "x", "@", "r">>, <<"j", "@", "r">>, <<"z", "@", "r">>, <<>> }

\* account.Object below the name: "missing" is an absent key, "other" a value
\* of another type than the one the type assertion asks for.
AccountShapes ==
    { [spec |-> "missing", claims |-> "missing", addr |-> "missing", email |-> <<>>],
      [spec |-> "other", claims |-> "missing", addr |-> "missing", email |-> <<>>],
      [spec |-> "map", claims |-> "missing", addr |-> "missing", email |-> <<>>],
      [spec |-> "map", claims |-> "other", addr |-> "missing", email |-> <<>>],
      [spec |-> "map", claims |-> "map", addr |-> "missing", email |-> <<>>],
      [spec |-> "map", claims |-> "map", addr |-> "other", email |-> <<>>] }
    \cup { [spec |-> "map", claims |-> "map", addr |-> "string", email |-> e] :
             e \in AccountEmails }

Accounts == {[name |-> n, object |-> o] : n \in AccountNames, o \in AccountShapes}

\* The lists the cluster can return: account names are unique in a namespace.
AccountLists ==
    UNION { {l \in [1..n -> Accounts] :
               \A i \in 1..n, j \in 1..n : l[i].name = l[j].name => i = j} :
            n \in 0..MaxAccounts }

\* The directory: entries with a mail, a preferred alias and a uid ("" when
\* the entry has no uid attribute).
Directories ==
    { <<>>,
      << [mail |-> <<"j", "@", "r">>, alias |-> <<"j", "j", "@", "r">>,
          uid |-> <<"j", "d", "o", "e">>] >>,
      << [mail |-> <<"z", "@", "r">>, alias |-> <<"z", "e", "d", "@", "r">>, uid |-> <<>>],
         [mail |-> <<"z", "e", "d", "@", "r">>, alias |-> <<"z", "@", "r">>,
          uid |-> <<"z", "e", "d">>] >> }

\* A faulty variant: the function runs on every call (no sync.Once).
OnceDoAlways(done) == TRUE

\* sync.Once: whether once.Do runs its function
OnceDo(done) == ~done

\* ldap.Dial calls made by n successive getLDAPClient calls
RECURSIVE DialsOf(_, _)
DialsOf(done, n) ==
    IF n = 0 THEN 0
    ELSE (IF OnceDo(done) THEN 1 ELSE 0) + DialsOf(TRUE, n - 1)

\* searchLDAP: the uid of the first entry whose field equals the address
searchLDAP(dir, e, field) ==
    LET hits == SelectSeq(dir, LAMBDA x :
                   IF field = "mail" THEN x.mail = e ELSE x.alias = e)
    IN IF Len(hits) = 0 THEN <<>> ELSE hits[1].uid

getUser(dir, e) ==
    LET cEmail == cleanEmail(e)
        userName == searchLDAP(dir, cEmail, "mail")
    IN IF userName = <<>> THEN searchLDAP(dir, cEmail, "rhatPreferredAlias")
       ELSE userName

\* conn.Search calls of one getUser
SearchesOf(dir, e) ==
    IF searchLDAP(dir, cleanEmail(e), "mail") = <<>> THEN 2 ELSE 1

\* the Transform handed to buildIDMap
Transform(t, dir, e) == IF t = "email" THEN cleanEmail(e) ELSE getUser(dir, e)

\* the three type assertions of buildIDMap succeed
HasEmail(account) ==
    /\ account.object.spec = "map"
    /\ account.object.claims = "map"
    /\ account.object.addr = "string"

\* A faulty variant: the result is stored without the test for "".
StoreIDAlways(m, name, id) == (name :> id) @@ m

\* if id != "" { idMap[name] = id }
StoreID(m, name, id) == IF id # <<>> THEN (name :> id) @@ m ELSE m

InitRun ==
    /\ pc = "loadKubeconfig"
    /\ idMap = <<>>
    /\ target \in Targets
    /\ userAccounts = <<>> /\ acctIdx = 0
    /\ onceDone = FALSE /\ dials = 0 /\ searches = 0 /\ conn = "none"
    /\ ldapDir = <<>>
    /\ MigDefaults
    /\ CleanDefaults

LoadKubeconfig ==
    /\ pc = "loadKubeconfig"
    /\ \E ok \in BOOLEAN : pc' = IF ok THEN "newDynClient" ELSE "fatalCluster"
    /\ UNCHANGED <<idMap, varsRun, varsMig, varsClean>>

NewDynamicClient ==
    /\ pc = "newDynClient"
    /\ \E ok \in BOOLEAN : pc' = IF ok THEN "listAccounts" ELSE "fatalCluster"
    /\ UNCHANGED <<idMap, varsRun, varsMig, varsClean>>

ListUserAccounts ==
    /\ pc = "listAccounts"
    /\ \/ /\ pc' = "fatalCluster"
          /\ UNCHANGED userAccounts
       \/ /\ \E l \in AccountLists : userAccounts' = l
          /\ pc' = "switch"
    /\ UNCHANGED <<idMap, target, acctIdx, onceDone, dials, searches, conn, ldapDir,
                   varsMig, varsClean>>

\* case "email"
SelectEmail ==
    /\ pc = "switch" /\ target = "email"
    /\ pc' = "buildIDMap"
    /\ idMap' = <<>>
    /\ UNCHANGED <<varsRun, varsMig, varsClean>>

\* case "user": lc := getLDAPClient()
SelectUser ==
    /\ pc = "switch" /\ target = "user"
    /\ onceDone' = TRUE
    /\ dials' = dials + DialsOf(onceDone, 1)
    /\ \/ /\ pc' = "fatalDial"
          /\ UNCHANGED <<conn, ldapDir>>
       \/ /\ pc' = "buildIDMap"
          /\ conn' = "open"
          /\ \E d \in Directories : ldapDir' = d
    /\ idMap' = <<>>
    /\ UNCHANGED <<target, userAccounts, acctIdx, searches, varsMig, varsClean>>

\* default: usage is printed and Run returns
SelectDefault ==
    /\ pc = "switch" /\ target \notin {"email", "user"}
    /\ pc' = "usage"
    /\ UNCHANGED <<idMap, varsRun, varsMig, varsClean>>

\* one iteration of the loop of buildIDMap whose account has no string address
BuildIDMapSkip ==
    /\ pc = "buildIDMap" /\ acctIdx < Len(userAccounts)
    /\ ~HasEmail(userAccounts[acctIdx + 1])
    /\ acctIdx' = acctIdx + 1
    /\ UNCHANGED <<pc, idMap, target, userAccounts, onceDone, dials, searches, conn,
                   ldapDir, varsMig, varsClean>>

\* one iteration with transform = cleanEmail
BuildIDMapEmail ==
    /\ pc = "buildIDMap" /\ acctIdx < Len(userAccounts) /\ target = "email"
    /\ HasEmail(userAccounts[acctIdx + 1])
    /\ LET account == userAccounts[acctIdx + 1]
       IN idMap' = StoreID(idMap, account.name, cleanEmail(account.object.email))
    /\ acctIdx' = acctIdx + 1
    /\ UNCHANGED <<pc, target, userAccounts, onceDone, dials, searches, conn, ldapDir,
                   varsMig, varsClean>>

\* one iteration with transform = getUser: one or two searches, each of which
\* calls getLDAPClient and can fail (log.Fatalf)
BuildIDMapUser ==
    /\ pc = "buildIDMap" /\ acctIdx < Len(userAccounts) /\ target = "user"
    /\ HasEmail(userAccounts[acctIdx + 1])
    /\ LET account == userAccounts[acctIdx + 1]
           n == SearchesOf(ldapDir, account.object.email)
       IN \/ /\ searches' = searches + n
             /\ dials' = dials + DialsOf(onceDone, n)
             /\ idMap' = StoreID(idMap, account.name,
                                 getUser(ldapDir, account.object.email))
             /\ acctIdx' = acctIdx + 1
             /\ pc' = pc
          \/ \E failed \in 1..n :
                /\ searches' = searches + failed
                /\ dials' = dials + DialsOf(onceDone, failed)
                /\ pc' = "fatalSearch"
                /\ UNCHANGED <<idMap, acctIdx>>
    /\ UNCHANGED <<target, userAccounts, onceDone, conn, ldapDir, varsMig, varsClean>>

\* buildIDMap returns; under "user" the connection is closed; migrate is called
BuildIDMapReturn ==
    /\ pc = "buildIDMap" /\ acctIdx = Len(userAccounts)
    /\ conn' = IF target = "user" THEN "closed" ELSE conn
    /\ pc' = "migrate"
    /\ UNCHANGED <<idMap, target, userAccounts, acctIdx, onceDone, dials, searches,
                   ldapDir, varsMig, varsClean>>

NextRun ==
    \/ LoadKubeconfig
    \/ NewDynamicClient
    \/ ListUserAccounts
    \/ SelectEmail
    \/ SelectUser
    \/ SelectDefault
    \/ BuildIDMapSkip
    \/ BuildIDMapEmail
    \/ BuildIDMapUser
    \/ BuildIDMapReturn

SpecRun == InitRun /\ [][NextRun]_vars

\* C7: of the accounts buildIDMap has visited, exactly those with a string
\* address whose transform result is non-empty have an entry, the entry is that
\* result, no value is the empty string, and an account with a missing or
\* malformed spec, claims or address never ends the run.
C7_IDMapEntries ==
    pc \in {"buildIDMap", "migrate", "fatalSearch"} =>
        /\ \A i \in 1..acctIdx :
              LET a == userAccounts[i]
                  id == Transform(target, ldapDir, a.object.email)
              IN /\ a.name \in DOMAIN idMap <=> (HasEmail(a) /\ id # <<>>)
                 /\ a.name \in DOMAIN idMap => idMap[a.name] = id
        /\ DOMAIN idMap \subseteq {userAccounts[i].name : i \in 1..acctIdx}
        /\ \A k \in DOMAIN idMap : idMap[k] # <<>>
        /\ pc = "fatalSearch" =>
              acctIdx < Len(userAccounts) /\ HasEmail(userAccounts[acctIdx + 1])
        /\ pc = "migrate" => acctIdx = Len(userAccounts)

\* buildIDMap has returned a mapping with an entry for one account, after
\* omitting a malformed account.
C7_Witness ==
    /\ pc = "migrate"
    /\ \E i \in 1..Len(userAccounts) : ~HasEmail(userAccounts[i])
    /\ \E i \in 1..Len(userAccounts) : userAccounts[i].name \in DOMAIN idMap
    /\ Cardinality(DOMAIN idMap) < Len(userAccounts)

\* C9: ldap.Dial is called at most once in a run, never under the email
\* strategy or an invalid selector, and exactly once, at the dispatch, under the
\* user strategy; every search happens on the connection that one call opened,
\* and only under the user strategy does a failed connection end the run.
C9_ConnectionAttempts ==
    /\ [](/\ dials <= 1
          /\ target # "user" => (dials = 0 /\ searches = 0 /\ conn = "none")
          /\ (target = "user" /\ pc \in {"buildIDMap", "migrate", "fatalDial",
                                         "fatalSearch"}) => dials = 1
          /\ searches > 0 => (dials = 1 /\ conn # "none")
          /\ pc = "fatalDial" => target = "user")
    /\ [][searches' > searches => (dials = 1 /\ dials' = 1 /\ conn = "open")]_vars

\* a run under the user strategy has made three searches or more on its one
\* connection and closed it
C9_Witness ==
    /\ pc = "migrate" /\ target = "user"
    /\ dials = 1 /\ searches >= 3 /\ conn = "closed"

----------------------------------------------------------------------------
(* Spec: migrate(idMap, ctx) *)

Appstudio == <<"a", "p", "p", "s", "t", "u", "d", "i", "o">>
Konflux == <<"k", "o", "n", "f", "l", "u", "x">>

\* "appstudio-pipelines-runner-rolebinding", left out by getTenantRoleBindings
PipelinesRunner ==
    Appstudio \o <<"-", "p", "i", "p", "e", "l", "i", "n", "e", "s", "-", "r", "u", "n", "n", "e", "r">>
              \o <<"-", "r", "o", "l", "e", "b", "i", "n", "d", "i", "n", "g">>

\* "toolchain-host-operator", left out by getTenantRoleBindings
ToolchainHost ==
    <<"t", "o", "o", "l", "c", "h", "a", "i", "n", "-", "h", "o", "s", "t">> \o <<"-", "o", "p", "e", "r", "a", "t", "o", "r">>

JD == <<"j", "d">>
ZZ == <<"z", "z">>

\* The mappings Run can hand to migrate: no value is empty.  In the first, zz
\* has no entry; in the second the identity of jd is an address at appstudio.
IdMapSet ==
    { (JD :> <<"j", "d", "o", "e">>),
      (JD :> (<<"j", "@">> \o Appstudio)) @@ (ZZ :> <<"z", "e", "d">>) }

TenantNamespaces == {<<"t">>, <<"t", "-", "a">>}

\* binding name and role name of the bindings in the cluster:
\*   appstudio-jd / appstudio-user       konflux-jd / appstudio-user
\*   a-appstudio-jd / admin              appstudio-appstudio-jd / appstudio-appstudio
BindingShapes ==
    { [name |-> Appstudio \o <<"-">> \o JD, role |-> Appstudio \o <<"-", "u", "s", "e", "r">>],
      [name |-> Konflux \o <<"-">> \o JD, role |-> Appstudio \o <<"-", "u", "s", "e", "r">>],
      [name |-> <<"a", "-">> \o Appstudio \o <<"-">> \o JD, role |-> <<"a", "d", "m", "i", "n">>],
      [name |-> Appstudio \o <<"-">> \o Appstudio \o <<"-">> \o JD,
       role |-> Appstudio \o <<"-">> \o Appstudio] }

\* subject names of a binding: none, one (mapped or not), two
SubjectLists == {<<>>, <<JD>>, <<ZZ>>, <<JD, ZZ>>}

\* a RoleBinding as the List call returns it, Subjects by value
RawBinding(ns, name, role, subjects) ==
    [Namespace |-> ns, Name |-> name, SubjectNames |-> subjects,
     RoleRef |-> [Kind |-> "Role", Name |-> role],
     Labels |-> {<<"toolchain.dev.openshift.com/provider", "codeready-toolchain">>},
     Annotations |-> {<<"toolchain.dev.openshift.com/owner", "x">>},
     ResourceVersion |-> "41", UID |-> "uid", CreationTimestamp |-> "t0",
     ManagedFields |-> <<"kubesaw">>,
     APIVersion |-> "", Kind |-> ""]

ClusterBindings ==
    { RawBinding(ns, b.name, b.role, sub) :
        ns \in TenantNamespaces, b \in BindingShapes, sub \in SubjectLists }
    \cup { RawBinding(<<"t">>, PipelinesRunner, Appstudio, <<JD>>),
           RawBinding(ToolchainHost, Appstudio \o <<"-">> \o JD, Appstudio, <<JD>>) }

\* what RoleBindings("").List can return: (namespace, name) is unique
RawBindingLists ==
    UNION { {l \in [1..n -> ClusterBindings] :
               \A i \in 1..n, j \in 1..n :
                  (l[i].Namespace = l[j].Namespace /\ l[i].Name = l[j].Name) => i = j} :
            n \in 0..MaxBindings }

\* the two exclusions of getTenantRoleBindings
Listed(rb) == rb.Name # PipelinesRunner /\ rb.Namespace # ToolchainHost

\* The rbacv1.RoleBinding value at position i of the slice: every field by
\* value, except Subjects, a slice header that points at backing array i.
BindingValue(raw, i) ==
    [Namespace |-> raw.Namespace, Name |-> raw.Name, Subjects |-> i,
     RoleRef |-> raw.RoleRef, Labels |-> raw.Labels, Annotations |-> raw.Annotations,
     ResourceVersion |-> raw.ResourceVersion, UID |-> raw.UID,
     CreationTimestamp |-> raw.CreationTimestamp, ManagedFields |-> raw.ManagedFields,
     APIVersion |-> raw.APIVersion, Kind |-> raw.Kind]

\* A faulty variant: the limit is off by one.
TooManySubjectsOver2(n) == n > 2

\* len(rb.Subjects) > 1
TooManySubjects(n) == n > 1

\* A faulty variant: the count is set to 0 without the test for the key.
TrackNamespaceReset(pn, ns) == (ns :> 0) @@ pn

\* _, exists := processedNamespaces[namespace]; if !exists { ... = 0 }
TrackNamespace(pn, ns) == IF ns \in DOMAIN pn THEN pn ELSE (ns :> 0) @@ pn

\* A faulty variant: the role name is kept as it is.
NewRoleNameKept(role) == role

\* cRole := strings.Replace(role, "appstudio", "konflux", 1)
NewRoleName(role) == ReplaceFirst(role, Appstudio, Konflux)

\* nrbName: the product token replaced, then the user replaced by the identity
NewBindingName(rbName, user, id) ==
    ReplaceFirst(ReplaceFirst(rbName, Appstudio, Konflux), user, id)

\* the copy rb of the loop after the assignments of the if branch; Subjects
\* still points at the backing array of the source binding
MigratedBinding(rb, user, id) ==
    [rb EXCEPT !.Name = NewBindingName(rb.Name, user, id),
               !.RoleRef = [Kind |-> "ClusterRole", Name |-> NewRoleName(rb.RoleRef.Name)],
               !.Annotations = {},
               !.Labels = {<<"konflux-ci.dev/type", "user">>},
               !.ResourceVersion = "",
               !.UID = "",
               !.CreationTimestamp = "",
               !.ManagedFields = <<>>,
               !.APIVersion = "rbac.authorization.k8s.io/v1",
               !.Kind = "RoleBinding"]

\* A faulty variant: the record is put in front.
PrependMigrated(list, rb) == <<rb>> \o list

\* mrbList = append(mrbList, rb)
AppendMigrated(list, rb) == Append(list, rb)

\* the orders in which range can visit the keys of a map
KeyOrders(m) ==
    {o \in [1..Cardinality(DOMAIN m) -> DOMAIN m] :
        \A i \in DOMAIN o, j \in DOMAIN o : o[i] = o[j] => i = j}

\* processedRB := fmt.Sprintf("(%s-%s)", rb.Namespace, rb.Name)
ProcessedKey(rb) == <<"(">> \o rb.Namespace \o <<"-">> \o rb.Name \o <<")">>

\* the document written for rb: the binding with its subjects read through
\* the slice
Document(rb, heap) ==
    [Namespace |-> rb.Namespace, Name |-> rb.Name, SubjectNames |-> heap[rb.Subjects],
     RoleRef |-> rb.RoleRef, Labels |-> rb.Labels, Annotations |-> rb.Annotations,
     APIVersion |-> rb.APIVersion, Kind |-> rb.Kind]

\* What the file system and the serializer do with one binding: "ok", or
\* the failure of the separator write, of the encoding or of the document write.
WriteOutcomes == {"ok", "separator", "encode", "document"}

\* what one iteration of the writer adds to the file
Written(rb, heap, outcome) ==
    IF outcome = "separator" THEN <<>>
    ELSE IF outcome = "ok"
         THEN <<[item |-> "separator"], [item |-> "document", rb |-> Document(rb, heap)]>>
         ELSE <<[item |-> "separator"]>>

\* The loop of writeMigratedRoleBindings from position i on, with the keys
\* seen so far and the file so far; how[i] is the outcome of the writes for
\* position i.  The key is recorded before the writes are tried.
RECURSIVE WriteFrom(_, _, _, _, _, _)
WriteFrom(list, heap, how, i, processedRBs, file) ==
    IF i > Len(list) THEN file
    ELSE IF ProcessedKey(list[i]) \in processedRBs
         THEN WriteFrom(list, heap, how, i + 1, processedRBs, file)
         ELSE WriteFrom(list, heap, how, i + 1,
                        processedRBs \cup {ProcessedKey(list[i])},
                        file \o Written(list[i], heap, how[i]))

\* the positions the writer does not skip as already processed
RECURSIVE TriedFrom(_, _, _)
TriedFrom(list, i, processedRBs) ==
    IF i > Len(list) THEN {}
    ELSE IF ProcessedKey(list[i]) \in processedRBs
         THEN TriedFrom(list, i + 1, processedRBs)
         ELSE {i} \cup TriedFrom(list, i + 1, processedRBs \cup {ProcessedKey(list[i])})

Init ==
    /\ pc = "migrate"
    /\ idMap \in IdMapSet
    /\ MigDefaults
    /\ RunDefaults
    /\ CleanDefaults

\* clientcmd.BuildConfigFromFlags and kubernetes.NewForConfig
MigrateClientset ==
    /\ pc = "migrate"
    /\ \E ok \in BOOLEAN : pc' = IF ok THEN "getNamespaces" ELSE "fatalCluster"
    /\ UNCHANGED <<idMap, varsRun, varsMig, varsClean>>

\* getTenantNamespaces: the list is only counted
GetTenantNamespaces ==
    /\ pc = "getNamespaces"
    /\ \E ok \in BOOLEAN : pc' = IF ok THEN "getRoleBindings" ELSE "fatalCluster"
    /\ UNCHANGED <<idMap, varsRun, varsMig, varsClean>>

GetTenantRoleBindings ==
    /\ pc = "getRoleBindings"
    /\ \/ /\ pc' = "fatalCluster"
          /\ UNCHANGED <<rbList, subjHeap, fetched>>
       \/ \E raw \in RawBindingLists :
             LET kept == SelectSeq(raw, Listed)
             IN /\ rbList' = [i \in 1..Len(kept) |-> BindingValue(kept[i], i)]
                /\ subjHeap' = [i \in 1..Len(kept) |-> kept[i].SubjectNames]
                /\ fetched' = [i \in 1..Len(kept) |-> kept[i].SubjectNames]
                /\ pc' = "mutate"
    /\ UNCHANGED <<idMap, rbIdx, mrbList, processedNamespaces, orphanReport, outFile,
                   writeErrors,                   varsRun, varsClean>>

\* the binding the loop of mutateTenantRoleBindings is at, and its subjects
CurrentRB == rbList[rbIdx + 1]
CurrentSubjects == subjHeap[CurrentRB.Subjects]

\* log.Fatalf: more than one subject
MutateFatal ==
    /\ pc = "mutate" /\ rbIdx < Len(rbList)
    /\ TooManySubjects(Len(CurrentSubjects))
    /\ processedNamespaces' = TrackNamespace(processedNamespaces, CurrentRB.Namespace)
    /\ pc' = "fatalSubjects"
    /\ UNCHANGED <<idMap, rbList, subjHeap, fetched, rbIdx, mrbList, orphanReport,
                   outFile, writeErrors, varsRun, varsClean>>

\* rb.Subjects[0] of an empty slice: index out of range, the run panics
MutatePanic ==
    /\ pc = "mutate" /\ rbIdx < Len(rbList)
    /\ ~TooManySubjects(Len(CurrentSubjects))
    /\ Len(CurrentSubjects) = 0
    /\ processedNamespaces' = TrackNamespace(processedNamespaces, CurrentRB.Namespace)
    /\ pc' = "panic"
    /\ UNCHANGED <<idMap, rbList, subjHeap, fetched, rbIdx, mrbList, orphanReport,
                   outFile, writeErrors, varsRun, varsClean>>

\* the subject is a key of idMap: the binding is rewritten and collected
MutateMigrate ==
    /\ pc = "mutate" /\ rbIdx < Len(rbList)
    /\ ~TooManySubjects(Len(CurrentSubjects))
    /\ Len(CurrentSubjects) >= 1
    /\ CurrentSubjects[1] \in DOMAIN idMap
    /\ LET rb == CurrentRB
           user == CurrentSubjects[1]
           id == idMap[user]
           tracked == TrackNamespace(processedNamespaces, rb.Namespace)
       IN /\ subjHeap' = [subjHeap EXCEPT ![rb.Subjects][1] = id]
          /\ processedNamespaces' = [tracked EXCEPT ![rb.Namespace] = @ + 1]
          /\ mrbList' = AppendMigrated(mrbList, MigratedBinding(rb, user, id))
    /\ rbIdx' = rbIdx + 1
    /\ UNCHANGED <<pc, idMap, rbList, fetched, orphanReport, outFile, writeErrors,
                   varsRun, varsClean>>

\* the subject is no key of idMap: continue
MutateSkip ==
    /\ pc = "mutate" /\ rbIdx < Len(rbList)
    /\ ~TooManySubjects(Len(CurrentSubjects))
    /\ Len(CurrentSubjects) >= 1
    /\ CurrentSubjects[1] \notin DOMAIN idMap
    /\ processedNamespaces' = TrackNamespace(processedNamespaces, CurrentRB.Namespace)
    /\ rbIdx' = rbIdx + 1
    /\ UNCHANGED <<pc, idMap, rbList, subjHeap, fetched, mrbList, orphanReport, outFile,
                   writeErrors, varsRun, varsClean>>

\* after the loop: every namespace whose count is 0 is printed, in the order
\* range visits the map; mutateTenantRoleBindings returns
MutateReport ==
    /\ pc = "mutate" /\ rbIdx = Len(rbList)
    /\ \E o \in KeyOrders(processedNamespaces) :
          orphanReport' = SelectSeq(o, LAMBDA ns : processedNamespaces[ns] = 0)
    /\ pc' = "write"
    /\ UNCHANGED <<idMap, rbList, subjHeap, fetched, rbIdx, mrbList, processedNamespaces,
                   outFile, writeErrors, varsRun, varsClean>>

\* writeMigratedRoleBindings (os.Create is taken to succeed)
WriteMigratedRoleBindings ==
    /\ pc = "write"
    /\ \E how \in [1..Len(mrbList) -> WriteOutcomes] :
          /\ \A i \in 1..Len(mrbList) :
                i \notin TriedFrom(mrbList, 1, {}) => how[i] = "ok"
          /\ outFile' = WriteFrom(mrbList, subjHeap, how, 1, {}, <<>>)
          /\ writeErrors' = Cardinality({i \in 1..Len(mrbList) : how[i] # "ok"})
    /\ pc' = "done"
    /\ UNCHANGED <<idMap, rbList, subjHeap, fetched, rbIdx, mrbList, processedNamespaces,
                   orphanReport, varsRun, varsClean>>

Next ==
    \/ MigrateClientset
    \/ GetTenantNamespaces
    \/ GetTenantRoleBindings
    \/ MutateFatal
    \/ MutatePanic
    \/ MutateMigrate
    \/ MutateSkip
    \/ MutateReport
    \/ WriteMigratedRoleBindings

Spec == Init /\ [][Next]_vars

----------------------------------------------------------------------------
(* Properties of migrate *)

\* the transform has been entered
InTransform == pc \in {"mutate", "fatalSubjects", "panic", "write", "done"}

\* the subject the cluster returned for binding i is a key of idMap
Resolves(i) == Len(fetched[i]) >= 1 /\ fetched[i][1] \in DOMAIN idMap

\* the positions, in input order, of the bindings the loop has gone past
\* and whose subject is a key of idMap
ResolvedIdx == SelectSeq([i \in 1..rbIdx |-> i], Resolves)

\* number of positions of seq that hold x
CountIn(seq, x) == Cardinality({i \in 1..Len(seq) : seq[i] = x})

\* C1: a binding with more than one subject is never gone past: once the
\* list holds one, no orphan report is printed, the writer is not entered
\* and nothing is written.
C1_MultiSubjectAborts ==
    InTransform =>
        \A i \in 1..Len(rbList) :
            Len(fetched[i]) > 1 =>
                /\ rbIdx < i
                /\ pc \in {"mutate", "fatalSubjects", "panic"}
                /\ orphanReport = <<>>
                /\ outFile = <<>> /\ writeErrors = 0

\* the run has been aborted at a binding with two subjects after a valid
\* binding had been migrated
C1_Witness ==
    /\ pc = "fatalSubjects"
    /\ Len(mrbList) >= 1
    /\ Len(fetched[rbIdx + 1]) > 1

\* C2 as stated: every migrated record has role kind ClusterRole and neither
\* its name nor its role reference name contains "appstudio".
C2_NoLegacyToken ==
    \A k \in 1..Len(mrbList) :
        /\ mrbList[k].RoleRef.Kind = "ClusterRole"
        /\ ~Contains(mrbList[k].Name, Appstudio)
        /\ ~Contains(mrbList[k].RoleRef.Name, Appstudio)

\* C2 amended: every migrated record has role kind ClusterRole; its role
\* reference name is free of "appstudio" when the original role name holds the
\* token at most once; and when the original binding name holds it at most
\* once, any "appstudio" left in the new name overlaps the identity that
\* replaced the subject name.
C2_FirstOccurrenceReplaced ==
    (InTransform /\ Len(mrbList) = Len(ResolvedIdx)) =>
    \A k \in 1..Len(mrbList) :
        LET src == rbList[ResolvedIdx[k]]
            user == fetched[ResolvedIdx[k]][1]
            id == idMap[user]
            new == mrbList[k]
            renamed == ReplaceFirst(src.Name, Appstudio, Konflux)
            at == Index(renamed, user)
        IN /\ new.RoleRef.Kind = "ClusterRole"
           /\ Occurrences(src.RoleRef.Name, Appstudio) <= 1
                 => ~Contains(new.RoleRef.Name, Appstudio)
           /\ Occurrences(src.Name, Appstudio) <= 1
                 => \A p \in 1..Len(new.Name) :
                       HasPrefixAt(new.Name, Appstudio, p)
                          => /\ at # 0
                             /\ p <= at + Len(id) - 1
                             /\ p + Len(Appstudio) - 1 >= at

\* a binding named appstudio-jd with role appstudio-user has been migrated
\* to a name and a role without the token
C2_Witness ==
    \E k \in 1..Len(mrbList) :
        /\ Len(mrbList) = Len(ResolvedIdx)
        /\ rbList[ResolvedIdx[k]].Name = Appstudio \o <<"-">> \o JD
        /\ mrbList[k].Name = Konflux \o <<"-", "j", "d", "o", "e">>
        /\ mrbList[k].RoleRef.Name = Konflux \o <<"-", "u", "s", "e", "r">>

\* the documents in the file, in order
Documents == [k \in 1..Len(SelectSeq(outFile, LAMBDA x : x.item = "document")) |->
                 SelectSeq(outFile, LAMBDA x : x.item = "document")[k].rb]

\* C3: when no write fails, the documents written are those of the migrated
\* bindings that no earlier migrated binding equals in (namespace, name), in
\* order: the first of each pair is written and no other binding is dropped.
C3_FirstOfPairWritten ==
    (pc = "done" /\ writeErrors = 0) =>
        LET first(i) == \A j \in 1..(i - 1) :
                           <<mrbList[j].Namespace, mrbList[j].Name>>
                              # <<mrbList[i].Namespace, mrbList[i].Name>>
            kept == SelectSeq([i \in 1..Len(mrbList) |-> i], first)
        IN Documents = [k \in 1..Len(kept) |-> Document(mrbList[kept[k]], subjHeap)]

\* C4: once the transform has returned, a namespace is in the orphan report
\* once if it is the namespace of an input binding and of no binding whose
\* subject is a key of idMap, and is not in it otherwise.
C4_OrphanReport ==
    pc \in {"write", "done"} =>
        /\ \A i \in 1..Len(rbList) :
              LET ns == rbList[i].Namespace
                  migrated == \E j \in 1..Len(rbList) :
                                 rbList[j].Namespace = ns /\ Resolves(j)
              IN CountIn(orphanReport, ns) = IF migrated THEN 0 ELSE 1
        /\ \A k \in 1..Len(orphanReport) :
              \E i \in 1..Len(rbList) : rbList[i].Namespace = orphanReport[k]

\* the transform has returned with two namespaces in its input: the one whose
\* binding was skipped is reported as orphan, the one whose binding was
\* migrated is not
C4_Witness ==
    /\ pc = "write"
    /\ Len(rbList) = 2
    /\ rbList[1].Namespace # rbList[2].Namespace
    /\ Resolves(1) /\ ~Resolves(2)
    /\ orphanReport = <<rbList[2].Namespace>>

\* C5: the migrated records are, in input order, those of the bindings gone
\* past whose subject is a key of idMap, one each, and the count of a
\* namespace is the number of such bindings in it.
C5_OnlyResolvedMigrated ==
    InTransform =>
        /\ Len(mrbList) = Len(ResolvedIdx)
        /\ \A k \in 1..Len(mrbList) :
              k <= Len(ResolvedIdx) =>
              LET src == rbList[ResolvedIdx[k]]
                  user == fetched[ResolvedIdx[k]][1]
              IN /\ mrbList[k].Namespace = src.Namespace
                 /\ mrbList[k].Name = NewBindingName(src.Name, user, idMap[user])
                 /\ mrbList[k].Subjects = src.Subjects
                 /\ subjHeap[mrbList[k].Subjects][1] = idMap[user]
        /\ \A ns \in DOMAIN processedNamespaces :
              processedNamespaces[ns] =
                 Cardinality({i \in 1..rbIdx : Resolves(i) /\ rbList[i].Namespace = ns})

\* the transform has returned after skipping a binding whose subject is no
\* key of idMap and migrating the binding after it
C5_Witness ==
    /\ pc = "write"
    /\ Len(rbList) = 2
    /\ ~Resolves(1) /\ Resolves(2)
    /\ Len(mrbList) = 1
    /\ rbList[1].Namespace = rbList[2].Namespace

\* C8: the subjects of every input binding are what the cluster returned, and
\* no migrated record uses the backing array of an input binding.
C8_InputUntouched ==
    InTransform =>
        /\ \A i \in 1..Len(rbList) : subjHeap[rbList[i].Subjects] = fetched[i]
        /\ \A k \in 1..Len(mrbList), i \in 1..Len(rbList) :
              mrbList[k].Subjects # rbList[i].Subjects

\* C10: the transform never indexes the subjects of a binding that has none;
\* a binding is migrated, skipped or ends the run with the multi-subject error.
C10_NoSubjectReadOfEmpty ==
    /\ pc # "panic"
    /\ (pc = "mutate" /\ rbIdx < Len(rbList) /\ ~TooManySubjects(Len(CurrentSubjects)))
          => Len(CurrentSubjects) >= 1

====
